---------------------------- MODULE Spec2Model ----------------------------
(***************************************************************************)
(* RDT 3.0 receiver (receiver.py): the checksum codec, the acknowledgment  *)
(* packet builder and start_receiver's handshake and receive loop.         *)
(*                                                                         *)
(* A Python str is a sequence of code points, a bytes object a sequence of *)
(* byte values.  The code points the model uses are below 2048, so a       *)
(* character encodes to one or two UTF-8 bytes.                            *)
(***************************************************************************)
EXTENDS Integers, Sequences, FiniteSets, TLC

\* Bounds of the model: reads of the receive loop, WAITING responses read.
MaxReads == 3
MaxWaiting == 2

-----------------------------------------------------------------------------
(* str.encode("utf-8") and bytes.decode("utf-8")                           *)

Utf8(c) ==
    IF c < 128 THEN <<c>> ELSE <<192 + (c \div 64), 128 + (c % 64)>>

\* The encodings of the characters, in order: enc[lo, hi] is the encoding
\* of s[lo..hi] (halving keeps the evaluation shallow on long strings).
Encode(s) ==
    LET enc[lo \in 1..(Len(s) + 1), hi \in 0..Len(s)] ==
            IF lo > hi THEN <<>>
            ELSE IF lo = hi THEN Utf8(s[lo])
            ELSE enc[lo, (lo + hi) \div 2] \o enc[((lo + hi) \div 2) + 1, hi]
    IN  enc[1, Len(s)]

IsContinuation(x) == x >= 128 /\ x < 192

\* A two-byte lead is 0xC2..0xDF; the byte values the model feeds in are
\* ASCII, two-byte sequences and 0xFF (never valid in UTF-8).
IsLead2(x) == x >= 194 /\ x < 224

RECURSIVE Decodable(_)
Decodable(b) ==
    IF b = <<>> THEN TRUE
    ELSE IF Head(b) < 128 THEN Decodable(Tail(b))
    ELSE IF IsLead2(Head(b)) /\ Len(b) >= 2 /\ IsContinuation(b[2])
         THEN Decodable(Tail(Tail(b)))
    ELSE FALSE

RECURSIVE Decode(_)
Decode(b) ==
    IF b = <<>> THEN <<>>
    ELSE IF Head(b) < 128 THEN <<Head(b)>> \o Decode(Tail(b))
    ELSE <<(Head(b) - 192) * 64 + (b[2] - 128)>> \o Decode(Tail(Tail(b)))

-----------------------------------------------------------------------------
(* checksum and checksum_verifier                                          *)

\* s = 0; for i in range(len(msg)): s += msg[i]
SumBytes(b) ==
    LET sum[lo \in 1..(Len(b) + 1), hi \in 0..Len(b)] ==
            IF lo > hi THEN 0
            ELSE IF lo = hi THEN b[lo]
            ELSE sum[lo, (lo + hi) \div 2] + sum[((lo + hi) \div 2) + 1, hi]
    IN  sum[1, Len(b)]

\* The decimal digits of n, as characters.
Digits(n) ==
    LET dig[k \in 0..n] ==
            IF k < 10 THEN <<48 + k>>
            ELSE Append(dig[k \div 10], 48 + (k % 10))
    IN  dig[n]

\* format(s, '05d'): at least five digits, zero-padded in front.
Format05d(s) ==
    LET d == Digits(s)
    IN  IF Len(d) >= 5 THEN d ELSE [i \in 1..(5 - Len(d)) |-> 48] \o d

\* msg = msg.encode("utf-8"), the sum of its bytes, format(s, '05d'); the
\* encoded bytes are bound once and summed.
checksum(msg) ==
    CHOOSE sum \in {Format05d(SumBytes(bytes)) : bytes \in {Encode(msg)}} :
        TRUE

expected_packet_length == 30

\* msg[:-5] and msg[-5:]
ButLast5(msg) == SubSeq(msg, 1, Len(msg) - 5)
\* Mutant: msg[-4:] is taken for the checksum field.
Last5_short(msg) == SubSeq(msg, Len(msg) - 3, Len(msg))

Last5(msg) == SubSeq(msg, Len(msg) - 4, Len(msg))

\* Mutant: a message of exactly the packet length is refused.
checksum_verifier_le(msg) ==
    IF Len(msg) <= expected_packet_length THEN FALSE
    ELSE checksum(ButLast5(msg)) = Last5(msg)

checksum_verifier(msg) ==
    IF Len(msg) < expected_packet_length THEN FALSE
    ELSE checksum(ButLast5(msg)) = Last5(msg)

is_corrupt(recv_msg) == ~checksum_verifier(recv_msg)

-----------------------------------------------------------------------------
(* make_packet and the fields of a data packet                             *)

spaces == [i \in 1..20 |-> 32]

\* Mutant: the checksum is taken before the last space is added.
make_packet_EarlySum(a) ==
    LET body == <<32, 32>> \o Digits(a) \o <<32>> \o spaces
    IN  body \o <<32>> \o checksum(body)

\* Mutant: the bit is put at character 0.
make_packet_BitFirst(a) ==
    LET body == Digits(a) \o <<32, 32, 32>> \o spaces \o <<32>>
    IN  body \o checksum(body)

\* "  {} {} ".format(ACK, spaces) followed by its checksum
make_packet(a) ==
    LET body == <<32, 32>> \o Digits(a) \o <<32>> \o spaces \o <<32>>
    IN  body \o checksum(body)

IsDigit(c) == c >= 48 /\ c <= 57

\* int(recv_message[0]) when it does not raise
seq_num(msg) == msg[1] - 48

\* recv_message[4:24]
Payload(msg) == SubSeq(msg, 5, 24)

\* Mutant: the bit never alternates.
NextBit_same(b) == b

NextBit(b) == (b + 1) % 2

\* Mutant: nothing is stripped.
rstrip_none(s) == s

\* str.rstrip(" "): keep[n] is how much of s[1..n] is left once its
\* trailing spaces are dropped.
rstrip(s) ==
    LET keep[n \in 0..Len(s)] ==
            IF n = 0 THEN 0 ELSE IF s[n] = 32 THEN keep[n - 1] ELSE n
    IN  SubSeq(s, 1, keep[Len(s)])

-----------------------------------------------------------------------------
(* What the relay can put on the wire                                      *)

\* A sender's data packet, laid out as in the docstring example
\* "1 0 That was the time fo 02018": sequence digit, space, ack digit,
\* space, 20 payload characters, space, 5 checksum digits.
DataBody(seqChar, payload) == <<seqChar, 32, 48, 32>> \o payload \o <<32>>

DataPacket(seqChar, payload) ==
    LET body == DataBody(seqChar, payload)
    IN  Encode(body \o checksum(body))

PadTo20(s) == s \o [i \in 1..(20 - Len(s)) |-> 32]

TextHEL == <<72, 69, 76>>
TextLO == <<76, 79>>
TextHELLO == <<72, 69, 76, 76, 79>>
TextThat ==
    <<84, 104, 97, 116, 32, 119, 97, 115, 32, 116, 104, 101, 32, 116, 105,
      109, 101, 32, 102, 111>>

PktHEL0 == DataPacket(48, PadTo20(TextHEL))
PktLO1 == DataPacket(49, PadTo20(TextLO))
PktThat1 == DataPacket(49, TextThat)

\* PktHEL0 with its first payload byte changed: the checksum no longer fits.
PktBadSum == [PktHEL0 EXCEPT ![5] = 73]
\* A partial read: recv(30) may return fewer than 30 bytes.
PktShort == SubSeq(PktHEL0, 1, 12)
\* 30 bytes that decode to 29 characters (0xC3 0xA9 is one character).
PktTwoByteChar == <<48, 32, 48, 32, 195, 169>> \o SubSeq(PktHEL0, 7, 30)
\* A checksum-valid packet whose character 0 is the digit 2.
PktSeq2 == DataPacket(50, PadTo20(TextHEL))
\* A checksum-valid packet whose character 0 is a space: the layout of the
\* receiver's own acknowledgment packets.
PktAckLayout == Encode(make_packet(0))
\* 30 bytes that are not UTF-8.
PktNotUtf8 == [PktHEL0 EXCEPT ![5] = 255]

Chunks ==
    { PktHEL0, PktLO1, PktThat1, PktBadSum, PktShort, PktTwoByteChar,
      PktSeq2, PktAckLayout, PktNotUtf8 }

StrOK == <<79, 75>>
StrWAITING == <<87, 65, 73, 84, 73, 78, 71>>
StrERROR == <<69, 82, 82, 79, 82>>

\* Handshake responses: "OK", "WAITING", "ERROR x", "WAIT", "", and a byte
\* string that is not UTF-8.
HandshakeResponses ==
    { StrOK, StrWAITING, StrERROR \o <<32, 120>>, SubSeq(StrWAITING, 1, 4),
      <<>>, <<255>> }

\* The abrupt-close errors of the transport (subclasses of ConnectionError).
AbruptClose ==
    { "ConnectionAbortedError", "ConnectionResetError", "BrokenPipeError" }

-----------------------------------------------------------------------------
VARIABLES
    pc,                         \* where start_receiver is
    clientSocket,               \* "new", "connected" or "closed"
    hello_sent,                 \* HELLO lines handed to the transport
    responses,                  \* byte strings the handshake reads returned
    recv_message,
    data,
    total_packet_sent,
    total_packet_recv,
    total_corrupted_pkt_recv,
    ACK,
    SEQ,
    packet,
    delivered,                  \* chunks the data-phase reads returned
    sent,                       \* byte strings the data-phase sends put out
    exc,                        \* the exception raised, "none" if none
    report,                     \* the final printout, <<>> before it
    fn_arg,                     \* argument of a checksum_verifier call
    fn_result                   \* its result, <<>> before the call

vars ==
    << pc, clientSocket, hello_sent, responses, recv_message, data,
       total_packet_sent, total_packet_recv, total_corrupted_pkt_recv,
       ACK, SEQ, packet, delivered, sent, exc, report, fn_arg, fn_result >>

loopVars ==
    << recv_message, data, total_packet_sent, total_packet_recv,
       total_corrupted_pkt_recv, ACK, SEQ, packet, delivered, sent >>

fnVars == << fn_arg, fn_result >>

StartState ==
    /\ clientSocket = "new"
    /\ hello_sent = 0
    /\ responses = <<>>
    /\ recv_message = <<>>
    /\ data = <<>>
    /\ total_packet_sent = 0
    /\ total_packet_recv = 0
    /\ total_corrupted_pkt_recv = 0
    /\ ACK = 0
    /\ SEQ = 0
    /\ packet = <<>>
    /\ delivered = <<>>
    /\ sent = <<>>
    /\ exc = "none"
    /\ report = <<>>

Init ==
    /\ pc = "connect"
    /\ StartState
    /\ fn_arg = <<>>
    /\ fn_result = <<>>

-----------------------------------------------------------------------------
(* STEP 1: connect and handshake                                           *)

StartsWith(s, prefix) ==
    /\ Len(s) >= Len(prefix)
    /\ SubSeq(s, 1, Len(prefix)) = prefix

ConnectOK ==
    /\ pc = "connect"
    /\ clientSocket' = "connected"
    /\ pc' = "hello"
    /\ UNCHANGED << hello_sent, responses, loopVars, exc, report, fnVars >>

\* except socket.error: print, close, return
ConnectFails ==
    /\ pc = "connect"
    /\ clientSocket' = "closed"
    /\ pc' = "terminated"
    /\ UNCHANGED << hello_sent, responses, loopVars, exc, report, fnVars >>

SendHello ==
    /\ pc = "hello"
    /\ hello_sent' = hello_sent + 1
    /\ pc' = "hs_recv"
    /\ UNCHANGED << clientSocket, responses, loopVars, exc, report, fnVars >>

\* Nothing catches an error of sendall or recv during the handshake.
HandshakeRaises(e) ==
    /\ pc \in {"hello", "hs_recv"}
    /\ exc' = e
    /\ pc' = "raised"
    /\ UNCHANGED << clientSocket, hello_sent, responses, loopVars, report, fnVars >>

HsUndecodable(r) ==
    /\ pc = "hs_recv"
    /\ responses' = Append(responses, r)
    /\ ~Decodable(r)
    /\ exc' = "UnicodeDecodeError"
    /\ pc' = "raised"
    /\ UNCHANGED << clientSocket, hello_sent, loopVars, report, fnVars >>

\* The response starts with "OK": the loop at line 98 is left and the data
\* phase's variables are set (lines 119-126).
HsOK(r) ==
    /\ pc = "hs_recv"
    /\ responses' = Append(responses, r)
    /\ Decodable(r)
    /\ StartsWith(Decode(r), StrOK)
    /\ recv_message' = Decode(r)
    /\ data' = <<>>
    /\ total_packet_sent' = 0
    /\ total_packet_recv' = 0
    /\ total_corrupted_pkt_recv' = 0
    /\ ACK' = 0
    /\ SEQ' = 0
    /\ pc' = "recv"
    /\ UNCHANGED << clientSocket, hello_sent, packet, delivered, sent,
                    exc, report, fnVars >>

\* "WAITING": read again.
HsWaiting(r) ==
    /\ pc = "hs_recv"
    /\ responses' = Append(responses, r)
    /\ Len(responses) < MaxWaiting
    /\ Decodable(r)
    /\ ~StartsWith(Decode(r), StrOK)
    /\ StartsWith(Decode(r), StrWAITING)
    /\ recv_message' = Decode(r)
    /\ UNCHANGED << pc, clientSocket, hello_sent, data, total_packet_sent,
                    total_packet_recv, total_corrupted_pkt_recv, ACK, SEQ,
                    packet, delivered, sent, exc, report, fnVars >>

\* "ERROR ...": print and return.
HsError(r) ==
    /\ pc = "hs_recv"
    /\ responses' = Append(responses, r)
    /\ Decodable(r)
    /\ ~StartsWith(Decode(r), StrOK)
    /\ ~StartsWith(Decode(r), StrWAITING)
    /\ StartsWith(Decode(r), StrERROR)
    /\ recv_message' = Decode(r)
    /\ pc' = "terminated"
    /\ UNCHANGED << clientSocket, hello_sent, data, total_packet_sent,
                    total_packet_recv, total_corrupted_pkt_recv, ACK, SEQ,
                    packet, delivered, sent, exc, report, fnVars >>

\* Mutant: an unrecognised response is taken for "OK".
HsInvalid_Proceeds(r) ==
    /\ pc = "hs_recv"
    /\ responses' = Append(responses, r)
    /\ Decodable(r)
    /\ ~StartsWith(Decode(r), StrOK)
    /\ ~StartsWith(Decode(r), StrWAITING)
    /\ ~StartsWith(Decode(r), StrERROR)
    /\ recv_message' = Decode(r)
    /\ pc' = "recv"
    /\ UNCHANGED << clientSocket, hello_sent, data, total_packet_sent,
                    total_packet_recv, total_corrupted_pkt_recv, ACK, SEQ,
                    packet, delivered, sent, exc, report, fnVars >>

\* Any other response: print and return.
HsInvalid(r) ==
    /\ pc = "hs_recv"
    /\ responses' = Append(responses, r)
    /\ Decodable(r)
    /\ ~StartsWith(Decode(r), StrOK)
    /\ ~StartsWith(Decode(r), StrWAITING)
    /\ ~StartsWith(Decode(r), StrERROR)
    /\ recv_message' = Decode(r)
    /\ pc' = "terminated"
    /\ UNCHANGED << clientSocket, hello_sent, data, total_packet_sent,
                    total_packet_recv, total_corrupted_pkt_recv, ACK, SEQ,
                    packet, delivered, sent, exc, report, fnVars >>

-----------------------------------------------------------------------------
(* STEP 2: the receive loop                                                *)

hsVars == << clientSocket, hello_sent, responses >>

\* Mutant: the empty read is counted as a packet before the loop is left.
RecvEmpty_Counted ==
    /\ pc = "recv"
    /\ recv_message' = Decode(<<>>)
    /\ total_packet_recv' = total_packet_recv + 1
    /\ pc' = "closing"
    /\ UNCHANGED << hsVars, data, total_packet_sent,
                    total_corrupted_pkt_recv, ACK, SEQ, packet, delivered,
                    sent, exc, report, fnVars >>

\* recv(30) returns b"": the sender has finished, break.
RecvEmpty ==
    /\ pc = "recv"
    /\ recv_message' = Decode(<<>>)
    /\ pc' = "closing"
    /\ UNCHANGED << hsVars, data, total_packet_sent, total_packet_recv,
                    total_corrupted_pkt_recv, ACK, SEQ, packet, delivered,
                    sent, exc, report, fnVars >>

\* except ConnectionAbortedError: break.  Any other exception leaves
\* start_receiver.
Caught(e) == e = "ConnectionAbortedError"

AfterRaise(e) == IF Caught(e) THEN "closing" ELSE "raised"

\* recv(30) raises.
RecvRaises(e) ==
    /\ pc = "recv"
    /\ exc' = e
    /\ pc' = AfterRaise(e)
    /\ UNCHANGED << hsVars, loopVars, report, fnVars >>

\* The bytes read are not UTF-8: decode raises before anything is counted.
RecvUndecodable(c) ==
    /\ pc = "recv"
    /\ Len(delivered) < MaxReads
    /\ ~Decodable(c)
    /\ delivered' = Append(delivered, c)
    /\ exc' = "UnicodeDecodeError"
    /\ pc' = AfterRaise("UnicodeDecodeError")
    /\ UNCHANGED << hsVars, recv_message, data, total_packet_sent,
                    total_packet_recv, total_corrupted_pkt_recv, ACK, SEQ,
                    packet, sent, report, fnVars >>

\* Mutant: the NAK of a corrupt packet carries ACK itself.
RecvCorrupt_AckBit(c) ==
    /\ pc = "recv"
    /\ Len(delivered) < MaxReads
    /\ Decodable(c)
    /\ is_corrupt(Decode(c))
    /\ delivered' = Append(delivered, c)
    /\ recv_message' = Decode(c)
    /\ total_packet_recv' = total_packet_recv + 1
    /\ total_corrupted_pkt_recv' = total_corrupted_pkt_recv + 1
    /\ packet' = make_packet(ACK)
    /\ pc' = "send_nak"
    /\ UNCHANGED << hsVars, data, total_packet_sent, ACK, SEQ, sent, exc,
                    report, fnVars >>

\* The packet fails the checksum: count it and build the NAK.
RecvCorrupt(c) ==
    /\ pc = "recv"
    /\ Len(delivered) < MaxReads
    /\ Decodable(c)
    /\ is_corrupt(Decode(c))
    /\ delivered' = Append(delivered, c)
    /\ recv_message' = Decode(c)
    /\ total_packet_recv' = total_packet_recv + 1
    /\ total_corrupted_pkt_recv' = total_corrupted_pkt_recv + 1
    /\ packet' = make_packet(NextBit(ACK))
    /\ pc' = "send_nak"
    /\ UNCHANGED << hsVars, data, total_packet_sent, ACK, SEQ, sent, exc,
                    report, fnVars >>

\* The checksum fits but int(recv_message[0]) raises ValueError.
RecvNoSeqNum(c) ==
    /\ pc = "recv"
    /\ Len(delivered) < MaxReads
    /\ Decodable(c)
    /\ ~is_corrupt(Decode(c))
    /\ ~IsDigit(Decode(c)[1])
    /\ delivered' = Append(delivered, c)
    /\ recv_message' = Decode(c)
    /\ total_packet_recv' = total_packet_recv + 1
    /\ exc' = "ValueError"
    /\ pc' = AfterRaise("ValueError")
    /\ UNCHANGED << hsVars, data, total_packet_sent,
                    total_corrupted_pkt_recv, ACK, SEQ, packet, sent, report,
                    fnVars >>

\* Mutant: a duplicate's payload is appended before the NAK.
RecvMismatch_Appends(c) ==
    /\ pc = "recv"
    /\ Len(delivered) < MaxReads
    /\ Decodable(c)
    /\ ~is_corrupt(Decode(c))
    /\ IsDigit(Decode(c)[1])
    /\ seq_num(Decode(c)) # SEQ
    /\ delivered' = Append(delivered, c)
    /\ recv_message' = Decode(c)
    /\ total_packet_recv' = total_packet_recv + 1
    /\ data' = data \o Payload(Decode(c))
    /\ packet' = make_packet(NextBit(ACK))
    /\ pc' = "send_nak"
    /\ UNCHANGED << hsVars, total_packet_sent, total_corrupted_pkt_recv, ACK,
                    SEQ, sent, exc, report, fnVars >>

\* The checksum fits and the sequence number is not SEQ: build the NAK.
RecvMismatch(c) ==
    /\ pc = "recv"
    /\ Len(delivered) < MaxReads
    /\ Decodable(c)
    /\ ~is_corrupt(Decode(c))
    /\ IsDigit(Decode(c)[1])
    /\ seq_num(Decode(c)) # SEQ
    /\ delivered' = Append(delivered, c)
    /\ recv_message' = Decode(c)
    /\ total_packet_recv' = total_packet_recv + 1
    /\ packet' = make_packet(NextBit(ACK))
    /\ pc' = "send_nak"
    /\ UNCHANGED << hsVars, data, total_packet_sent,
                    total_corrupted_pkt_recv, ACK, SEQ, sent, exc, report,
                    fnVars >>

\* Mutant: the payload is put in front of data.
RecvAccept_Prepends(c) ==
    /\ pc = "recv"
    /\ Len(delivered) < MaxReads
    /\ Decodable(c)
    /\ ~is_corrupt(Decode(c))
    /\ IsDigit(Decode(c)[1])
    /\ seq_num(Decode(c)) = SEQ
    /\ delivered' = Append(delivered, c)
    /\ recv_message' = Decode(c)
    /\ total_packet_recv' = total_packet_recv + 1
    /\ data' = Payload(Decode(c)) \o data
    /\ packet' = make_packet(ACK)
    /\ pc' = "send_ack"
    /\ UNCHANGED << hsVars, total_packet_sent, total_corrupted_pkt_recv, ACK,
                    SEQ, sent, exc, report, fnVars >>

\* The checksum fits and the sequence number is SEQ: take the payload and
\* build the ACK.
RecvAccept(c) ==
    /\ pc = "recv"
    /\ Len(delivered) < MaxReads
    /\ Decodable(c)
    /\ ~is_corrupt(Decode(c))
    /\ IsDigit(Decode(c)[1])
    /\ seq_num(Decode(c)) = SEQ
    /\ delivered' = Append(delivered, c)
    /\ recv_message' = Decode(c)
    /\ total_packet_recv' = total_packet_recv + 1
    /\ data' = data \o Payload(Decode(c))
    /\ packet' = make_packet(ACK)
    /\ pc' = "send_ack"
    /\ UNCHANGED << hsVars, total_packet_sent, total_corrupted_pkt_recv, ACK,
                    SEQ, sent, exc, report, fnVars >>

\* Mutant: the NAK goes out but is not counted.
SendNak_Uncounted ==
    /\ pc = "send_nak"
    /\ sent' = Append(sent, Encode(packet))
    /\ pc' = "recv"
    /\ UNCHANGED << hsVars, recv_message, data, total_packet_sent,
                    total_packet_recv, total_corrupted_pkt_recv, ACK, SEQ,
                    packet, delivered, exc, report, fnVars >>

\* send_packet(packet) and the count of it, on a NAK branch; continue.
SendNak ==
    /\ pc = "send_nak"
    /\ sent' = Append(sent, Encode(packet))
    /\ total_packet_sent' = total_packet_sent + 1
    /\ pc' = "recv"
    /\ UNCHANGED << hsVars, recv_message, data, total_packet_recv,
                    total_corrupted_pkt_recv, ACK, SEQ, packet, delivered,
                    exc, report, fnVars >>

\* send_packet(packet) and the count of it, on the accept branch.
SendAck ==
    /\ pc = "send_ack"
    /\ sent' = Append(sent, Encode(packet))
    /\ total_packet_sent' = total_packet_sent + 1
    /\ pc' = "advance"
    /\ UNCHANGED << hsVars, recv_message, data, total_packet_recv,
                    total_corrupted_pkt_recv, ACK, SEQ, packet, delivered,
                    exc, report, fnVars >>

\* sendall raises: nothing was sent or counted.
SendRaises(e) ==
    /\ pc \in {"send_nak", "send_ack"}
    /\ exc' = e
    /\ pc' = AfterRaise(e)
    /\ UNCHANGED << hsVars, loopVars, report, fnVars >>

\* Mutant: only SEQ is updated.
Advance_SeqOnly ==
    /\ pc = "advance"
    /\ SEQ' = NextBit(SEQ)
    /\ pc' = "recv"
    /\ UNCHANGED << hsVars, recv_message, data, total_packet_sent,
                    total_packet_recv, total_corrupted_pkt_recv, packet,
                    delivered, sent, exc, report, fnVars, ACK >>

\* update ACK and SEQ
Advance ==
    /\ pc = "advance"
    /\ ACK' = NextBit(ACK)
    /\ SEQ' = NextBit(SEQ)
    /\ pc' = "recv"
    /\ UNCHANGED << hsVars, recv_message, data, total_packet_sent,
                    total_packet_recv, total_corrupted_pkt_recv, packet,
                    delivered, sent, exc, report, fnVars >>

\* Mutant: the socket is left open after the loop.
Finish_NoClose ==
    /\ pc = "closing"
    /\ \E stripped \in {rstrip(data)} :
          /\ data' = stripped
          /\ report' = << [ file_checksum |-> checksum(stripped),
                            sent |-> total_packet_sent,
                            recv |-> total_packet_recv,
                            corrupted |-> total_corrupted_pkt_recv ] >>
    /\ pc' = "done"
    /\ UNCHANGED << clientSocket, hello_sent, responses, recv_message,
                    total_packet_sent, total_packet_recv,
                    total_corrupted_pkt_recv, ACK, SEQ, packet, delivered,
                    sent, exc, fnVars >>

\* After the loop: close the socket, strip the trailing spaces, print the
\* file checksum and the three counters.
Finish ==
    /\ pc = "closing"
    /\ clientSocket' = "closed"
    /\ \E stripped \in {rstrip(data)} :
          /\ data' = stripped
          /\ report' = << [ file_checksum |-> checksum(stripped),
                            sent |-> total_packet_sent,
                            recv |-> total_packet_recv,
                            corrupted |-> total_corrupted_pkt_recv ] >>
    /\ pc' = "done"
    /\ UNCHANGED << hello_sent, responses, recv_message, total_packet_sent,
                    total_packet_recv, total_corrupted_pkt_recv, ACK, SEQ,
                    packet, delivered, sent, exc, fnVars >>

Next ==
    \/ ConnectOK
    \/ ConnectFails
    \/ SendHello
    \/ \E e \in AbruptClose : HandshakeRaises(e)
    \/ \E r \in HandshakeResponses : HsUndecodable(r)
    \/ \E r \in HandshakeResponses : HsOK(r)
    \/ \E r \in HandshakeResponses : HsWaiting(r)
    \/ \E r \in HandshakeResponses : HsError(r)
    \/ \E r \in HandshakeResponses : HsInvalid(r)
    \/ RecvEmpty
    \/ \E e \in AbruptClose : RecvRaises(e)
    \/ \E c \in Chunks : RecvUndecodable(c)
    \/ \E c \in Chunks : RecvCorrupt(c)
    \/ \E c \in Chunks : RecvNoSeqNum(c)
    \/ \E c \in Chunks : RecvMismatch(c)
    \/ \E c \in Chunks : RecvAccept(c)
    \/ SendNak
    \/ SendAck
    \/ \E e \in AbruptClose : SendRaises(e)
    \/ Advance
    \/ Finish

Spec == Init /\ [][Next]_vars

\* start_receiver is one thread of straight-line code: a statement that can
\* run does run.  The sends are taken to complete when they do not raise.
LiveSpec ==
    /\ Init
    /\ [][Next]_vars
    /\ WF_vars(SendNak)
    /\ WF_vars(SendAck)
    /\ WF_vars(Advance)
    /\ WF_vars(Finish)

-----------------------------------------------------------------------------
(* checksum_verifier called on its own                                     *)

\* Length of the long message, whose byte sum has six digits.
LongLen == 250

Contents ==
    { <<>>, TextHEL, spaces,
      SubSeq(DataBody(48, PadTo20(TextHEL)), 1, 24),
      DataBody(48, PadTo20(TextHEL)),
      DataBody(49, PadTo20(TextLO)),
      DataBody(49, TextThat),
      DataBody(50, PadTo20(TextHEL)),
      DataBody(48, <<233>> \o SubSeq(TextThat, 2, 20)),
      DataBody(48, TextThat) \o <<32>>,
      make_packet(0),
      [i \in 1..LongLen |-> 2047] }

\* Checksum fields to follow content c: its checksum, the checksum with
\* the last digit changed, with the first character a space, its last five
\* and first five characters, nothing, "00000", the sum without padding.
TailsOf(c) ==
    LET k == checksum(c)
    IN  { k,
          [k EXCEPT ![Len(k)] = IF @ = 57 THEN 48 ELSE @ + 1],
          [k EXCEPT ![1] = 32],
          SubSeq(k, Len(k) - 4, Len(k)),
          SubSeq(k, 1, 5),
          <<>>,
          <<48, 48, 48, 48, 48>>,
          Digits(SumBytes(Encode(c))) }

VerifierInputs == UNION { { c \o t : t \in TailsOf(c) } : c \in Contents }

InitFn ==
    /\ pc = "verify"
    /\ StartState
    /\ fn_arg \in VerifierInputs
    /\ fn_result = <<>>

CallVerifier ==
    /\ pc = "verify"
    /\ fn_result' = <<checksum_verifier(fn_arg)>>
    /\ pc' = "verified"
    /\ UNCHANGED << hsVars, loopVars, exc, report, fn_arg >>

NextFn == CallVerifier

SpecFn == InitFn /\ [][NextFn]_vars

-----------------------------------------------------------------------------
(* Vocabulary of the properties                                            *)

Payloads == { PadTo20(TextHEL), PadTo20(TextLO), TextThat }

\* The sender's data packets whose sequence digit is 0, and 1.
Bit0Packets == { DataPacket(48, p) : p \in Payloads }
Bit1Packets == { DataPacket(49, p) : p \in Payloads }

\* c is a sender's data packet whose sequence digit is the bit b.
IsDataPacketWithBit(c, b) ==
    IF b = 0 THEN c \in Bit0Packets ELSE c \in Bit1Packets

HasBit(c) == IsDataPacketWithBit(c, 0) \/ IsDataPacketWithBit(c, 1)

BitOf(c) == IF IsDataPacketWithBit(c, 0) THEN 0 ELSE 1

\* The payload field of a data packet: bytes 5..24 of the wire form.
FieldOf(c) == [i \in 1..20 |-> c[4 + i]]

\* The acknowledgment for bit b as it appears on the wire: two spaces, the
\* bit, 22 spaces, then "00816" for bit 0 and "00817" for bit 1.
AckWire(b) ==
    [i \in 1..25 |-> IF i = 3 THEN 48 + b ELSE 32] \o <<48, 48, 56, 49, 54 + b>>

\* d[i] carries the bit (i-1) mod 2, for every i.
Alternating(d) ==
    \A i \in 1..Len(d) : IsDataPacketWithBit(d[i], (i - 1) % 2)

RECURSIVE ConcatFields(_)
ConcatFields(d) ==
    IF d = <<>> THEN <<>> ELSE FieldOf(Head(d)) \o ConcatFields(Tail(d))

\* The payload fields of the packets of d that open a run of equal bits,
\* last being the bit of the run before d.
RECURSIVE FirstOfRuns(_, _)
FirstOfRuns(d, last) ==
    IF d = <<>> THEN <<>>
    ELSE IF ~HasBit(Head(d)) THEN FirstOfRuns(Tail(d), last)
    ELSE (IF BitOf(Head(d)) # last THEN FieldOf(Head(d)) ELSE <<>>)
             \o FirstOfRuns(Tail(d), BitOf(Head(d)))

counters ==
    << total_packet_sent, total_packet_recv, total_corrupted_pkt_recv >>

\* The step reads a chunk off the transport in the data phase.
ReadsChunk == pc = "recv" /\ Len(delivered') = Len(delivered) + 1

LastDelivered == delivered[Len(delivered)]

-----------------------------------------------------------------------------
\* C1: fed N data packets with bits 0,1,0,1,... from the start of the data
\* phase, the loop has accepted all N: at the loop head (or having left the
\* loop by an empty read) data is the concatenation of their payload fields
\* in arrival order, and exactly N acknowledgments went out, the i-th
\* carrying bit (i-1) mod 2.
C1_AlternatingAllAccepted ==
    (pc \in {"recv", "closing"} /\ exc = "none" /\ Alternating(delivered))
    => /\ data = ConcatFields(delivered)
       /\ Len(sent) = Len(delivered)
       /\ total_packet_sent = Len(delivered)
       /\ \A i \in 1..Len(sent) : sent[i] = AckWire((i - 1) % 2)

C1_Witness ==
    /\ pc = "recv"
    /\ delivered = <<PktHEL0, PktThat1, PktHEL0>>
    /\ Len(sent) = 3

\* C2: a chunk that decodes and fails checksum verification makes the loop
\* count one corrupted packet and send exactly one acknowledgment carrying
\* (ACK+1) mod 2, with SEQ, ACK and data as they were; a data packet with
\* bit SEQ read next is accepted: its payload appended, ACK's value
\* acknowledged.
C2_CorruptNakThenAccept ==
    [][ /\ (ReadsChunk /\ Decodable(LastDelivered')
               /\ ~checksum_verifier(Decode(LastDelivered')))
           => /\ pc' = "send_nak"
              /\ total_corrupted_pkt_recv' = total_corrupted_pkt_recv + 1
              /\ UNCHANGED << SEQ, ACK, data, sent >>
        /\ (pc = "send_nak" /\ ~checksum_verifier(recv_message)
               /\ pc' = "recv")
           => /\ sent' = Append(sent, AckWire((ACK + 1) % 2))
              /\ UNCHANGED << SEQ, ACK, data, total_corrupted_pkt_recv >>
        /\ (ReadsChunk /\ delivered # <<>>
               /\ ~checksum_verifier(recv_message)
               /\ IsDataPacketWithBit(LastDelivered', SEQ))
           => /\ pc' = "send_ack"
              /\ data' = data \o FieldOf(LastDelivered')
              /\ Encode(packet') = AckWire(ACK)
              /\ UNCHANGED << SEQ, ACK, total_corrupted_pkt_recv >>
      ]_vars

C2_Witness ==
    /\ pc = "send_ack"
    /\ delivered = <<PktHEL0, PktBadSum, PktLO1>>
    /\ sent = <<AckWire(0), AckWire(0)>>
    /\ total_corrupted_pkt_recv = 1

\* C3: a checksum-valid packet whose sequence number is not SEQ makes the
\* loop send exactly one acknowledgment carrying (ACK+1) mod 2 and leaves
\* data, SEQ, ACK and the corrupted counter as they were; so of every run
\* of packets with the same bit only the first one's payload is in data.
C3_DuplicateNakNoAppend ==
    [][ /\ (ReadsChunk /\ Decodable(LastDelivered')
               /\ checksum_verifier(Decode(LastDelivered'))
               /\ IsDigit(LastDelivered'[1])
               /\ LastDelivered'[1] - 48 # SEQ)
           => /\ pc' = "send_nak"
              /\ UNCHANGED << data, SEQ, ACK, total_corrupted_pkt_recv, sent >>
        /\ (pc = "send_nak" /\ checksum_verifier(recv_message)
               /\ pc' = "recv")
           => /\ sent' = Append(sent, AckWire((ACK + 1) % 2))
              /\ UNCHANGED << data, SEQ, ACK, total_corrupted_pkt_recv >>
        /\ (pc' # "done" => data' = FirstOfRuns(delivered', 1))
      ]_vars

C3_Witness ==
    /\ pc = "recv"
    /\ delivered = <<PktHEL0, PktHEL0>>
    /\ sent = <<AckWire(0), AckWire(0)>>
    /\ Len(data) = 20

\* C4: the acknowledgment of an accepted packet carries ACK as it was when
\* the packet was accepted, which is the packet's sequence bit; SEQ and ACK
\* change only after it was sent, and then both to (x+1) mod 2.
C4_AckBeforeAdvance ==
    [][ /\ (pc = "recv" /\ pc' = "send_ack")
           => UNCHANGED << SEQ, ACK, sent >>
        /\ (pc = "send_ack" /\ pc' = "advance")
           => /\ sent' = Append(sent, AckWire(ACK))
              /\ ACK = recv_message[1] - 48
              /\ UNCHANGED << SEQ, ACK >>
        /\ (pc = "advance")
           => /\ pc' = "recv"
              /\ SEQ' = (SEQ + 1) % 2
              /\ ACK' = (ACK + 1) % 2
              /\ sent' = sent
        /\ (pc \notin {"advance", "hs_recv"}) => UNCHANGED << SEQ, ACK >>
      ]_vars

C4_Witness ==
    /\ pc = "recv"
    /\ delivered = <<PktBadSum, PktHEL0, PktHEL0>>
    /\ SEQ = 1
    /\ ACK = 1

\* C5: the step on which a data-phase read returns the empty string leaves
\* the loop and changes neither data nor a counter nor what was sent;
\* nothing is sent or counted after the loop; when the first read is the
\* empty one, the run ends with data empty and all three totals 0.
C5_EmptyReadEndsLoop ==
    [][ /\ (pc = "recv" /\ pc' = "closing" /\ exc' = "none")
           => /\ recv_message' = <<>>
              /\ UNCHANGED << data, counters, sent, delivered >>
        /\ (pc \in {"closing", "done"}) => UNCHANGED << counters, sent >>
        /\ (pc' = "done" /\ exc' = "none" /\ delivered' = <<>>)
           => /\ data' = <<>>
              /\ counters' = <<0, 0, 0>>
              /\ report' = << [ file_checksum |-> <<48, 48, 48, 48, 48>>,
                                sent |-> 0, recv |-> 0, corrupted |-> 0 ] >>
      ]_vars

C5_Witness ==
    /\ pc = "done"
    /\ exc = "none"
    /\ delivered = <<>>
    /\ report # <<>>

\* C6 (as amended): after PktHEL0 (bit 0, field "HEL" padded to 20) and a
\* bit-1 data packet, then an empty read, data is the two 20-character
\* fields one after the other with only the trailing spaces removed, the
\* padding of the first field still inside it; received 2, sent 2,
\* corrupted 0.
C6_TwoFieldsTrimmedAtEndOnly ==
    (pc = "done" /\ exc = "none" /\ Len(delivered) = 2
        /\ IsDataPacketWithBit(delivered[1], 0)
        /\ IsDataPacketWithBit(delivered[2], 1))
    => LET both == FieldOf(delivered[1]) \o FieldOf(delivered[2])
       IN  /\ Len(data) <= 40
           /\ data = [i \in 1..Len(data) |-> both[i]]
           /\ \A i \in (Len(data) + 1)..40 : both[i] = 32
           /\ (data # <<>> => data[Len(data)] # 32)
           /\ (delivered = <<PktHEL0, PktLO1>>
                  => data = PadTo20(TextHEL) \o TextLO)
           /\ counters = <<2, 2, 0>>
           /\ report[1].recv = 2
           /\ report[1].sent = 2
           /\ report[1].corrupted = 0

C6_Witness ==
    /\ pc = "done"
    /\ exc = "none"
    /\ delivered = <<PktHEL0, PktLO1>>
    /\ Len(data) = 22

\* C6 as claimed: "HELLO" split across the packets PktHEL0 and PktLO1 is
\* reassembled to "HELLO", with received 2, sent 2, corrupted 0.
C6_HelloReassembled ==
    (pc = "done" /\ exc = "none" /\ delivered = <<PktHEL0, PktLO1>>)
    => /\ data = TextHELLO
       /\ counters = <<2, 2, 0>>

\* The data phase was entered: the last handshake response began with "OK".
EnteredLoop ==
    /\ responses # <<>>
    /\ Decodable(responses[Len(responses)])
    /\ StartsWith(Decode(responses[Len(responses)]), StrOK)

\* C7 as claimed: an abrupt-close error of any kind raised in the receive
\* loop ends the loop like an empty read, and nothing propagates to the
\* caller; once finished, the socket is closed and the report made.
C7_AbruptCloseEndsLoopCleanly ==
    (EnteredLoop /\ exc \in AbruptClose)
    => /\ pc \in {"closing", "done"}
       /\ (pc = "done" => clientSocket = "closed" /\ report # <<>>)

\* C8 as claimed: whatever the characters of the chunks read in the data
\* phase, each is answered by exactly one acknowledgment and the loop goes
\* on; only the transport ends the session.
C8_ContentNeverAborts ==
    (delivered # <<>> /\ exc \notin AbruptClose
        /\ \A i \in 1..Len(delivered) : Decodable(delivered[i]))
    => /\ pc # "raised"
       /\ (pc \in {"recv", "closing", "done"} => Len(sent) = Len(delivered))
       /\ (pc \in {"send_nak", "send_ack"} => Len(sent) + 1 = Len(delivered))

InDataPhase ==
    \/ pc \in {"recv", "send_nak", "send_ack", "advance", "closing", "done"}
    \/ delivered # <<>>
    \/ sent # <<>>
    \/ report # <<>>

\* C9: the data phase is entered only with the socket connected, HELLO sent
\* once, and a last handshake response beginning with "OK" after responses
\* that all began with "WAITING"; a WAITING response leaves the receiver
\* reading the handshake; a connection error, a response beginning with
\* "ERROR" and a response with any other prefix end the session outside
\* the data phase.
C9_DataPhaseOnlyAfterOK ==
    /\ hello_sent <= 1
    /\ InDataPhase
       => /\ clientSocket # "new"
          /\ hello_sent = 1
          /\ EnteredLoop
          /\ \A i \in 1..(Len(responses) - 1) :
                /\ Decodable(responses[i])
                /\ StartsWith(Decode(responses[i]), StrWAITING)
    /\ (responses # <<>> /\ Decodable(responses[Len(responses)])
           /\ StartsWith(Decode(responses[Len(responses)]), StrWAITING))
       => pc \in {"hs_recv", "raised"} /\ hello_sent = 1 /\ ~InDataPhase
    /\ (clientSocket = "closed" /\ responses = <<>>)
       => pc = "terminated" /\ hello_sent = 0
    /\ (responses # <<>> /\ Decodable(responses[Len(responses)])
           /\ ~StartsWith(Decode(responses[Len(responses)]), StrOK)
           /\ ~StartsWith(Decode(responses[Len(responses)]), StrWAITING))
       => pc = "terminated"
    /\ pc = "terminated" => ~InDataPhase

C9_Witness ==
    /\ pc = "send_ack"
    /\ Len(responses) = 3
    /\ hello_sent = 1

\* C10: checksum_verifier(msg) is False when msg has fewer than 30
\* characters; otherwise it is True exactly when the last 5 characters of
\* msg are, character for character, checksum() of the characters before
\* them.
C10_VerifierBySplit ==
    (fn_result # <<>>)
    => LET n == Len(fn_arg)
           content == [i \in 1..(n - 5) |-> fn_arg[i]]
           claimed == [i \in 1..5 |-> fn_arg[n - 5 + i]]
       IN  IF n < 30 THEN fn_result[1] = FALSE
           ELSE fn_result[1] = (claimed = checksum(content))

C10_Witness ==
    /\ fn_result = <<TRUE>>
    /\ Len(fn_arg) = 30
    /\ fn_arg[26] = 48

\* C11 (as amended): for every content p of at least 25 characters whose
\* byte sum is below 100000, checksum_verifier(p + checksum(p)) is True.
C11_RoundTripFullWidth ==
    (fn_result # <<>>)
    => \A p \in Contents :
          (fn_arg = p \o checksum(p) /\ Len(p) >= 25
              /\ SumBytes(Encode(p)) < 100000)
          => fn_result = <<TRUE>>

C11_Witness ==
    /\ fn_result = <<TRUE>>
    /\ fn_arg = DataBody(49, TextThat) \o <<48, 50, 48, 49, 56>>

\* C11 as claimed: checksum_verifier(p + checksum(p)) is True for every
\* content p.
C11_RoundTripAlways ==
    (fn_result # <<>> /\ \E p \in Contents : fn_arg = p \o checksum(p))
    => fn_result = <<TRUE>>

\* c is a data packet of the sender with exactly one byte of its first 25
\* replaced by another value, the checksum field as it was.
OneContentByteReplaced(c) ==
    /\ Len(c) = 30
    /\ \E v \in Bit0Packets \cup Bit1Packets :
          /\ Cardinality({ i \in 1..30 : c[i] # v[i] }) = 1
          /\ \A i \in 26..30 : c[i] = v[i]

\* C12 as claimed: a checksum-valid packet with one byte of its content
\* replaced fails checksum_verifier, and the loop takes it for corrupt: it
\* counts it and builds a NAK for it.
C12_OneByteReplacedIsCorrupt ==
    [][ (ReadsChunk /\ OneContentByteReplaced(LastDelivered'))
        => /\ pc' = "send_nak"
           /\ ~checksum_verifier(recv_message')
           /\ total_corrupted_pkt_recv' = total_corrupted_pkt_recv + 1
      ]_vars

\* C13: every acknowledgment handed to the transport, and every packet
\* built for a send, is 30 characters wide, its last 5 characters are the
\* checksum of its first 25, and checksum_verifier accepts it.
C13_AcksCarryTheirChecksum ==
    [][ /\ (sent' # sent)
           => /\ sent' = Append(sent, Encode(packet))
              /\ Len(Encode(packet)) = 30
              /\ SubSeq(Decode(Encode(packet)), 26, 30)
                    = checksum(SubSeq(Decode(Encode(packet)), 1, 25))
              /\ checksum_verifier(Decode(Encode(packet)))
        /\ (pc = "recv" /\ pc' \in {"send_nak", "send_ack"})
           => /\ Len(packet') = 30
              /\ Last5(packet') = checksum(ButLast5(packet'))
      ]_vars

\* Acknowledgments of both bits went out, one of them on a NAK branch.
C13_Witness ==
    /\ pc = "advance"
    /\ delivered = <<PktHEL0, PktBadSum, PktLO1>>
    /\ sent = <<AckWire(0), AckWire(0), AckWire(1)>>

\* The bit the packet built for the pending send is meant to carry.
PendingBit == IF pc = "send_ack" THEN ACK ELSE (ACK + 1) % 2

\* C14 (as amended): an acknowledgment packet has its bit at character 2;
\* characters 0, 1 and 3 are spaces, characters 4..23 are the 20 spaces of
\* the placeholder payload, character 24 is a space and characters 25..29
\* are the checksum digits.  Character 0, where the receiver reads the
\* sequence bit of a data packet, is a space.
C14_AckBitAtCharacterTwo ==
    /\ (pc \in {"send_nak", "send_ack"})
       => /\ Len(packet) = 30
          /\ packet[3] = 48 + PendingBit
          /\ \A i \in (1..25) \ {3} : packet[i] = 32
          /\ \A i \in 26..30 : IsDigit(packet[i])
    /\ \A k \in 1..Len(sent) :
          /\ sent[k][3] \in {48, 49}
          /\ \A i \in (1..25) \ {3} : sent[k][i] = 32
          /\ \A i \in 26..30 : IsDigit(sent[k][i])

C14_Witness ==
    /\ pc = "send_nak"
    /\ delivered = <<PktHEL0, PktSeq2>>
    /\ packet[3] = 48
    /\ packet[1] = 32

\* C14 as claimed: the bit of an acknowledgment packet is at character 0,
\* where the receiver reads the sequence bit of a data packet.
C14_AckBitAtCharacterZero ==
    /\ (pc \in {"send_nak", "send_ack"}) => packet[1] = 48 + PendingBit
    /\ \A k \in 1..Len(sent) : sent[k][1] \in {48, 49}

\* Packets whose payload has been appended to data (data is trimmed once
\* the run is done; the count is then taken from what was read).
AppendedCount ==
    IF pc = "done" THEN Len(FirstOfRuns(delivered, 1)) \div 20
    ELSE Len(data) \div 20

\* The positive acknowledgment of the last appended payload was built and
\* the bits have not been advanced since.
AdvancePending == packet # <<>> /\ Encode(packet) = AckWire(ACK)

\* C15 (as amended): in the data phase SEQ = ACK; at every loop head, on
\* the NAK branches and after the loop was left from its head, both equal
\* (payloads appended) mod 2; from the append of a payload to the update
\* of the bits, and for good when the send of its acknowledgment raised,
\* they equal (payloads appended - 1) mod 2.
C15_BitsFollowAppendedCount ==
    EnteredLoop
    => /\ SEQ = ACK
       /\ (pc \in {"recv", "send_nak"}) => SEQ = AppendedCount % 2
       /\ (pc \in {"send_ack", "advance"})
          => AppendedCount >= 1 /\ SEQ = (AppendedCount - 1) % 2
       /\ (pc \in {"closing", "done", "raised"})
          => IF AdvancePending
             THEN AppendedCount >= 1 /\ SEQ = (AppendedCount - 1) % 2
             ELSE SEQ = AppendedCount % 2

\* The loop was left because the send of a positive acknowledgment raised.
C15_Witness ==
    /\ pc = "closing"
    /\ exc = "ConnectionAbortedError"
    /\ delivered = <<PktHEL0, PktLO1>>
    /\ Len(data) = 40
    /\ SEQ = 1
    /\ ACK = 1

\* C15 as claimed: in every state of the data phase SEQ and ACK equal
\* (payloads appended) mod 2.
C15_BitsEqualAppendedCount ==
    EnteredLoop
    => /\ SEQ = AppendedCount % 2
       /\ ACK = AppendedCount % 2

\* C16 as claimed: in the data phase total_packet_recv is the number of
\* non-empty chunks read off the transport and total_packet_sent the number
\* of acknowledgments handed to it.
C16_CountersMatchTransport ==
    EnteredLoop
    => /\ total_packet_recv = Len(delivered)
       /\ total_packet_sent = Len(sent)

IsPrefix(s, t) == Len(s) <= Len(t) /\ \A i \in 1..Len(s) : s[i] = t[i]

\* C17: on every step up to the end of the loop data is a prefix of its
\* next value; it changes only when a packet is accepted, by that packet's
\* 20-character payload field at its end.  What was sent only grows at its
\* end, a chunk is read only when every chunk before it was answered, and
\* the answer to an accepted packet carries that packet's bit.
C17_AppendOnlyInOrder ==
    [][ /\ (pc' # "done") => IsPrefix(data, data')
        /\ (pc' # "done" /\ data' # data)
           => /\ pc = "recv"
              /\ pc' = "send_ack"
              /\ Len(delivered') = Len(delivered) + 1
              /\ HasBit(LastDelivered')
              /\ data' = data \o FieldOf(LastDelivered')
        /\ IsPrefix(sent, sent')
        /\ Len(sent') <= Len(sent) + 1
        /\ IsPrefix(delivered, delivered')
        /\ ReadsChunk => Len(sent) = Len(delivered)
        /\ (Len(sent') = Len(sent) + 1)
           => /\ Len(sent') = Len(delivered)
              /\ (pc = "send_ack"
                     => sent'[Len(sent')] = AckWire(BitOf(LastDelivered)))
      ]_vars

C17_Witness ==
    /\ pc = "advance"
    /\ delivered = <<PktHEL0, PktSeq2, PktThat1>>
    /\ data = PadTo20(TextHEL) \o TextThat
    /\ Len(sent) = 3

\* The run is over: socket closed, data without trailing spaces, the file
\* checksum and the three counters printed.
Reported ==
    /\ pc = "done"
    /\ clientSocket = "closed"
    /\ (data # <<>> => data[Len(data)] # 32)
    /\ report # <<>>
    /\ report[1].file_checksum = checksum(data)
    /\ report[1].sent = total_packet_sent
    /\ report[1].recv = total_packet_recv
    /\ report[1].corrupted = total_corrupted_pkt_recv

\* C18: in the data phase, once a read has returned the empty string the
\* receiver gets to the end of the run, socket closed, data trimmed and the
\* report made; with its sends completing, a receiver that is not at a
\* read gets to the next read or out of the loop, and in each such state
\* its next statement can run.
C18_EmptyReadLeadsToReport ==
    /\ (pc = "closing" /\ exc = "none") ~> Reported
    /\ (pc \in {"send_nak", "send_ack", "advance"})
          ~> (pc \in {"recv", "closing", "done", "raised"})
    /\ [](pc = "send_nak" => ENABLED SendNak)
    /\ [](pc = "send_ack" => ENABLED SendAck)
    /\ [](pc = "advance" => ENABLED Advance)
    /\ [](pc = "closing" => ENABLED Finish)

C18_Witness ==
    /\ Reported
    /\ exc = "none"
    /\ delivered = <<PktHEL0, PktThat1, PktBadSum>>
    /\ report[1].recv = 3

\* The chunk is one the loop accepts when it expects sequence bit e.
AcceptedWhenExpecting(c, e) ==
    /\ Decodable(c)
    /\ checksum_verifier(Decode(c))
    /\ IsDigit(Decode(c)[1])
    /\ seq_num(Decode(c)) = e

\* The sequence bit of the last chunk of d that was accepted, the loop
\* starting out expecting 0 and expecting the other bit after each
\* accepted chunk; 1 when none was accepted.
LastAcceptedBit(d) ==
    LET last[n \in 0..Len(d)] ==
            IF n = 0 THEN 1
            ELSE IF AcceptedWhenExpecting(d[n], (last[n - 1] + 1) % 2)
                 THEN seq_num(Decode(d[n]))
                 ELSE last[n - 1]
    IN  last[Len(d)]

\* C19: the acknowledgment sent on the corrupt or the mismatch branch
\* carries the sequence bit of the most recently accepted packet, and 1
\* when none was accepted yet; the acknowledgment of an accepted packet
\* carries that packet's bit, so the negative one repeats the bit of the
\* last positive one; and the bit it carries is not SEQ.
C19_NakRepeatsLastAcceptedBit ==
    [][ /\ (pc = "send_nak" /\ pc' = "recv")
           => /\ sent' = Append(sent, AckWire(LastAcceptedBit(delivered)))
              /\ LastAcceptedBit(delivered) # SEQ
              /\ LastAcceptedBit(delivered) # SEQ'
        /\ (pc = "send_ack" /\ pc' = "advance")
           => /\ AcceptedWhenExpecting(LastDelivered, SEQ)
              /\ sent' = Append(sent, AckWire(LastAcceptedBit(delivered)))
      ]_vars

\* A duplicate after two accepted packets was answered with bit 1, and
\* before that a corrupt first packet with bit 1 too.
C19_Witness ==
    /\ pc = "recv"
    /\ delivered = <<PktBadSum, PktHEL0, PktHEL0>>
    /\ sent = <<AckWire(1), AckWire(0), AckWire(0)>>
    /\ SEQ = 1

\* C20: at the loop head as many acknowledgments were sent as packets
\* were received, and no more packets were counted corrupted than
\* received.
C20_LoopHeadCounters ==
    (pc = "recv")
    => /\ total_packet_sent = total_packet_recv
       /\ total_corrupted_pkt_recv <= total_packet_recv

\* At the loop head after a valid, a corrupt and a duplicate packet.
C20_Witness ==
    /\ pc = "recv"
    /\ delivered = <<PktHEL0, PktBadSum, PktHEL0>>
    /\ counters = <<3, 3, 1>>

=============================================================================
